---- MODULE Spec2Model ----
(***************************************************************************)
(* A model of the two scripts of the repository:                           *)
(*   gentext.py  - DaftPunkTextEffect, the layered text-effect compositor  *)
(*   some_gl.py  - the textured-cube viewer (texture loading at start-up)  *)
(*                                                                         *)
(* Images are records [mode, w, h, px] where px maps a pixel <<x, y>> to   *)
(* its samples (<<r,g,b,a>>, <<r,g,b>> or <<l>>), all samples 0..255.      *)
(* The imaging library's pixel arithmetic is written out in integers as    *)
(* the library computes it (its 8-bit blends and its alpha composite);     *)
(* where the library works in 32-bit floats (Image.blend) the model uses   *)
(* exact rationals with the library's truncation and clipping.             *)
(* Font rasterisation is an opaque service: a font and a text give a       *)
(* coverage mask, here a fixed table of small masks.                       *)
(***************************************************************************)
EXTENDS Integers, Sequences, FiniteSets, TLC

(***************************************************************************)
(* Bounds of the model.                                                    *)
(***************************************************************************)
\* canvas widths 1..MaxWidth and heights 1..MaxHeight
MaxWidth == 7
MaxHeight == 2
\* a method is invoked MaxRuns times on the same inputs
MaxRuns == 2
\* np.random is modelled by a seed 0..MaxSeed
MaxSeed == 2

\* gentext.py: effect_padding = 80
effect_padding == 80

Widths == 1..MaxWidth
Heights == 1..MaxHeight
Texts == {"", "A", "AB"}
Seeds == 0..MaxSeed

(***************************************************************************)
(* Images.                                                                 *)
(***************************************************************************)
Grid(w, h) == (0..(w - 1)) \X (0..(h - 1))

NoImage == [mode |-> "none", w |-> 0, h |-> 0, px |-> <<>>]

\* Image.new(mode, (w, h), color)
ImageNew(mode, w, h, color) ==
    [mode |-> mode, w |-> w, h |-> h, px |-> [p \in Grid(w, h) |-> color]]

\* Pillow's DIV255: tmp = a + 128; ((tmp >> 8) + tmp) >> 8
DIV255(a) == (((a + 128) \div 256) + (a + 128)) \div 256

\* Pillow's BLEND(mask, in1, in2) = DIV255(in1 * (255 - mask) + in2 * mask)
BLEND(mask, in1, in2) == DIV255(in1 * (255 - mask) + in2 * mask)

\* Pillow's SHIFTFORDIV255(a) = (((a >> 8) + a) >> 8)
SHIFTFORDIV255(a) == ((a \div 256) + a) \div 256

\* a plausible slip: the crop box taken from the corner of the working surface
CropFromCorner(img, left, upper, right, lower) ==
    [mode |-> img.mode, w |-> right - left, h |-> lower - upper,
     px |-> [p \in Grid(right - left, lower - upper) |-> img.px[p]]]

\* Image.crop((left, upper, right, lower)): pixel (p, q) of the result is
\* pixel (p + left, q + upper) of the image
Crop(img, left, upper, right, lower) ==
    [mode |-> img.mode, w |-> right - left, h |-> lower - upper,
     px |-> [p \in Grid(right - left, lower - upper) |->
                img.px[<<p[1] + left, p[2] + upper>>]]]

\* Image.convert('RGBA') of an RGB image: alpha 255
ConvertRGBA(img) ==
    [mode |-> "RGBA", w |-> img.w, h |-> img.h,
     px |-> [p \in Grid(img.w, img.h) |->
                IF img.mode = "RGBA" THEN img.px[p]
                ELSE <<img.px[p][1], img.px[p][2], img.px[p][3], 255>>]]

\* Image.convert('RGB') of an RGBA image: the alpha band is dropped
ConvertRGB(img) ==
    [mode |-> "RGB", w |-> img.w, h |-> img.h,
     px |-> [p \in Grid(img.w, img.h) |->
                <<img.px[p][1], img.px[p][2], img.px[p][3]>>]]

\* Image.convert('L') of an RGB pixel: (R*19595 + G*38470 + B*7471 + 0x8000) >> 16
Luma(c) == (c[1] * 19595 + c[2] * 38470 + c[3] * 7471 + 32768) \div 65536

\* Image.blend(in1, in2, num/den) on one sample: in1 + alpha * (in2 - in1),
\* clipped to 0..255 and truncated
BlendSample(in1, in2, num, den) ==
    LET t == den * in1 + num * (in2 - in1)
    IN  IF t <= 0 THEN 0
        ELSE IF t >= 255 * den THEN 255
        ELSE t \div den

\* Image.alpha_composite on one pixel: src over dst (Pillow's integer form)
AlphaCompositePixel(dst, src) ==
    IF src[4] = 0 THEN dst
    ELSE LET blend == dst[4] * (255 - src[4])
             outa255 == src[4] * 255 + blend
             coef1 == (src[4] * 255 * 255 * 128) \div outa255
             coef2 == 255 * 128 - coef1
             ch(i) == SHIFTFORDIV255(src[i] * coef1 + dst[i] * coef2 + 128 * 128)
                          \div 128
         IN  <<ch(1), ch(2), ch(3), SHIFTFORDIV255(outa255 + 128)>>

\* a plausible slip: the two arguments of the composite exchanged
AlphaCompositeUnder(dst, src) ==
    [mode |-> "RGBA", w |-> dst.w, h |-> dst.h,
     px |-> [p \in Grid(dst.w, dst.h) |-> AlphaCompositePixel(src.px[p], dst.px[p])]]

\* Image.alpha_composite(dst, src)
AlphaComposite(dst, src) ==
    [mode |-> "RGBA", w |-> dst.w, h |-> dst.h,
     px |-> [p \in Grid(dst.w, dst.h) |-> AlphaCompositePixel(dst.px[p], src.px[p])]]

(***************************************************************************)
(* Fonts and text rasterisation (the font backend, an opaque service).     *)
(* A font is "truetype" (ImageFont.truetype of the font file) or "default" *)
(* (ImageFont.load_default()).  A font and a text give a coverage mask of  *)
(* GlyphW x GlyphH samples; the truetype masks are antialiased (coverage   *)
(* 0, 128 or 255), the default font is a bitmap font (0 or 255).           *)
(***************************************************************************)
Fonts == {"truetype", "default"}

GlyphW(font, text) == Len(text) * (IF font = "truetype" THEN 8 ELSE 6)
GlyphH(font, text) == IF text = "" THEN 0 ELSE IF font = "truetype" THEN 16 ELSE 11

\* where the mask lies relative to the drawing position (the font's bearing)
GlyphOffset(font) == IF font = "truetype" THEN <<1, 1>> ELSE <<0, 0>>

\* the coverage of mask sample (i, j); 0 outside the mask
MaskAt(font, text, i, j) ==
    IF i < 0 \/ j < 0 \/ i >= GlyphW(font, text) \/ j >= GlyphH(font, text) THEN 0
    ELSE IF font = "truetype"
         THEN IF (3 * i + 5 * j) % 7 = 0 THEN 0
              ELSE IF (i + 2 * j) % 5 = 0 THEN 128
              ELSE 255
         ELSE IF (3 * i + 5 * j) % 7 < 2 THEN 0 ELSE 255

\* ImageDraw.textbbox((0, 0), text, font): (left, top, right, bottom)
TextBBox(font, text) ==
    <<GlyphOffset(font)[1], GlyphOffset(font)[2],
      GlyphOffset(font)[1] + GlyphW(font, text),
      GlyphOffset(font)[2] + GlyphH(font, text)>>

\* the coverage at image pixel p of the text drawn at (x, y)
CoverageAt(font, text, x, y, p) ==
    MaskAt(font, text, p[1] - x - GlyphOffset(font)[1], p[2] - y - GlyphOffset(font)[2])

(***************************************************************************)
(* ImageDraw.text on an image.  ImageDraw.Draw(im) is created without a    *)
(* blending mode, so the text is drawn by the library's mask fill: every   *)
(* band of the pixel, the alpha band included, is interpolated from its    *)
(* old value towards the fill by the glyph coverage.  On a pixel that is   *)
(* still fully transparent the colour bands take the fill outright.        *)
(***************************************************************************)
\* a plausible reading: the stamp composited src-over at coverage * alpha
DrawPixelOver(out, ink, m) ==
    AlphaCompositePixel(out, <<ink[1], ink[2], ink[3], DIV255(ink[4] * m)>>)

\* one RGBA pixel: out is the old pixel, ink the fill, m the coverage
DrawPixel(out, ink, m) ==
    IF m = 0 THEN out
    ELSE LET cm == IF out[4] = 0 THEN 255 ELSE m
         IN  <<BLEND(cm, out[1], ink[1]), BLEND(cm, out[2], ink[2]),
               BLEND(cm, out[3], ink[3]), BLEND(m, out[4], ink[4])>>

\* draw.text((x, y), text, fill=fill, font=font) on an RGBA image
ImageDrawText(img, x, y, text, fill, font) ==
    [mode |-> img.mode, w |-> img.w, h |-> img.h,
     px |-> [p \in Grid(img.w, img.h) |->
                DrawPixel(img.px[p], fill, CoverageAt(font, text, x, y, p))]]

\* draw.text((x, y), text, fill=fill, font=font) on an L image
ImageDrawTextL(img, x, y, text, fill, font) ==
    [mode |-> img.mode, w |-> img.w, h |-> img.h,
     px |-> [p \in Grid(img.w, img.h) |->
                <<BLEND(CoverageAt(font, text, x, y, p), img.px[p][1], fill)>>]]

\* pixel p after the draw.text calls k..Len(calls), out being its value before
RECURSIVE DrawAt(_, _, _, _, _, _)
DrawAt(out, calls, k, text, font, p) ==
    IF k > Len(calls) THEN out
    ELSE LET nxt == DrawPixel(out, calls[k].fill,
                              CoverageAt(font, text, calls[k].x, calls[k].y, p))
         IN  IF nxt[4] >= 0 THEN DrawAt(nxt, calls, k + 1, text, font, p) ELSE nxt

\* a sequence of draw.text calls [x, y, fill], in order, on an RGBA image
DrawTexts(img, calls, text, font) ==
    [mode |-> img.mode, w |-> img.w, h |-> img.h,
     px |-> [p \in Grid(img.w, img.h) |-> DrawAt(img.px[p], calls, 1, text, font, p)]]

\* the loop "for dx in [-offset, 0, offset]: for dy in [-offset, 0, offset]:
\* if dx != 0 or dy != 0: draw.text((x + dx, y + dy), ...)"
NeighbourCalls(x, y, offset, fill) ==
    LET tri == <<-offset, 0, offset>>
        all == [k \in 1..9 |->
                   [x |-> x + tri[((k - 1) \div 3) + 1],
                    y |-> y + tri[((k - 1) % 3) + 1], fill |-> fill]]
    IN  SelectSeq(all, LAMBDA c : c.x # x \/ c.y # y)

\* the loop "for offset in range(lo, hi): <NeighbourCalls>"
RECURSIVE GlowCalls(_, _, _, _, _)
GlowCalls(x, y, lo, hi, fill) ==
    IF lo >= hi THEN <<>>
    ELSE NeighbourCalls(x, y, lo, fill) \o GlowCalls(x, y, lo + 1, hi, fill)

\* "for offset_x, offset_y, color in table: draw.text(...)"
TableCalls(x, y, table) ==
    [k \in 1..Len(table) |->
        [x |-> x + table[k][1], y |-> y + table[k][2], fill |-> table[k][3]]]

top_highlights ==
    << <<0, -3, <<255, 255, 255, 120>> >>,
       <<0, -2, <<240, 240, 240, 100>> >>,
       <<-1, -2, <<220, 220, 220, 80>> >> >>

bottom_shadows ==
    << <<1, 3, <<0, 0, 0, 80>> >>,
       <<0, 2, <<40, 40, 40, 60>> >>,
       <<2, 2, <<20, 20, 20, 40>> >> >>

edge_colors ==
    << <<-1, 0, <<100, 255, 200, 30>> >>,
       <<1, 0, <<200, 100, 255, 30>> >>,
       <<0, -1, <<255, 200, 100, 25>> >> >>

\* "for offset in range(1, 3): draw.text((text_x + offset, text_y + offset), ...)"
SatinCalls(x, y) ==
    [k \in 1..2 |-> [x |-> x + k, y |-> y + k, fill |-> <<20, 30, 80, 100>>]]

\* a plausible slip: the edge hints drawn before the satin pass
ChromeDrawCallsReordered(x, y) ==
    << [x |-> x + 3, y |-> y + 5, fill |-> <<0, 0, 0, 200>>] >>
    \o GlowCalls(x, y, 1, 5, <<0, 0, 0, 70>>)
    \o << [x |-> x, y |-> y, fill |-> <<140, 140, 140, 255>>] >>
    \o TableCalls(x, y, top_highlights)
    \o TableCalls(x, y, bottom_shadows)
    \o TableCalls(x, y, edge_colors)
    \o SatinCalls(x, y)
    \o << [x |-> x, y |-> y - 1, fill |-> <<255, 255, 255, 140>>] >>

\* the draw.text calls of create_chrome_text_with_bevel, in program order,
\* (x, y) being the text position on the padded working surface
ChromeDrawCalls(x, y) ==
    << [x |-> x + 3, y |-> y + 5, fill |-> <<0, 0, 0, 200>>] >>
    \o GlowCalls(x, y, 1, 5, <<0, 0, 0, 70>>)
    \o << [x |-> x, y |-> y, fill |-> <<140, 140, 140, 255>>] >>
    \o TableCalls(x, y, top_highlights)
    \o TableCalls(x, y, bottom_shadows)
    \o SatinCalls(x, y)
    \o TableCalls(x, y, edge_colors)
    \o << [x |-> x, y |-> y - 1, fill |-> <<255, 255, 255, 140>>] >>

\* create_chrome_text_with_bevel(text, font, x, y) on a w x h canvas
ChromeLayer(w, h, text, font, x, y) ==
    LET text_canvas == ImageNew("RGBA", w + effect_padding * 2,
                                h + effect_padding * 2, <<0, 0, 0, 0>>)
        drawn == DrawTexts(text_canvas,
                           ChromeDrawCalls(x + effect_padding, y + effect_padding),
                           text, font)
    IN  Crop(drawn, effect_padding, effect_padding,
             w + effect_padding, h + effect_padding)

\* create_colored_shadow_layer(text, font, text_x, text_y)
ShadowLayer(w, h, text, font, x, y) ==
    ImageDrawText(ImageNew("RGBA", w, h, <<0, 0, 0, 0>>),
                  x + 3, y + 3, text, <<0, 0, 0, 255>>, font)

(***************************************************************************)
(* The rainbow layer.  A hue is the fraction <<num, den>>; colorsys works  *)
(* in fractions of den.                                                    *)
(***************************************************************************)
\* a plausible slip: the sweep normalised by width - 1, reaching hue 1
HueInclusive(x, w) == <<x, IF w > 1 THEN w - 1 ELSE 1>>

\* "hue = x / self.width"
Hue(x, w) == <<x, w>>

\* colorsys.hsv_to_rgb(h, 1.0, 1.0): the three channels as numerators over h[2]
hsv_to_rgb(h) ==
    LET den == h[2]
        i == (6 * h[1]) \div den
        f == 6 * h[1] - i * den
        v == den
        p == 0
        q == den - f
        t == f
        k == i % 6
    IN  CASE k = 0 -> <<v, t, p>>
          [] k = 1 -> <<q, v, p>>
          [] k = 2 -> <<p, v, t>>
          [] k = 3 -> <<p, q, v>>
          [] k = 4 -> <<t, p, v>>
          [] k = 5 -> <<v, p, q>>

\* "color = tuple(int(c * 255) for c in rgb)" for column x
GradientColor(x, w) ==
    LET hue == Hue(x, w)
        rgb == hsv_to_rgb(hue)
    IN  <<(rgb[1] * 255) \div hue[2], (rgb[2] * 255) \div hue[2],
          (rgb[3] * 255) \div hue[2]>>

\* the "for x ...: for y ...: rainbow_gradient.putpixel((x, y), color)" loops
RainbowGradient(w, h) ==
    [mode |-> "RGB", w |-> w, h |-> h,
     px |-> [p \in Grid(w, h) |-> GradientColor(p[1], w)]]

\* a plausible slip: the mask stamped at the shadow's position (+3, +3)
TextMaskAtShadow(w, h, text, font, x, y) ==
    ImageDrawTextL(ImageNew("L", w, h, <<0>>), x + 3, y + 3, text, 255, font)

\* the text mask of the rainbow layer: the text stamped once at (+6, +6)
TextMask(w, h, text, font, x, y) ==
    ImageDrawTextL(ImageNew("L", w, h, <<0>>), x + 6, y + 6, text, 255, font)

\* Image.paste(src, mask=mask) of an RGB image into an RGBA image: the
\* source is converted to the mode of the destination and every band is
\* interpolated from the destination towards the source by the mask
Paste(dst, src, mask) ==
    LET im == ConvertRGBA(src)
    IN  [mode |-> dst.mode, w |-> dst.w, h |-> dst.h,
         px |-> [p \in Grid(dst.w, dst.h) |->
                    [b \in 1..4 |->
                        BLEND(mask.px[p][1], dst.px[p][b], im.px[p][b])]]]

\* "rainbow_canvas.paste(rainbow_gradient, mask=text_mask)" on the new,
\* fully transparent rainbow_canvas
RainbowCanvas(w, h, text, font, x, y) ==
    Paste(ImageNew("RGBA", w, h, <<0, 0, 0, 0>>), RainbowGradient(w, h),
          TextMask(w, h, text, font, x, y))

\* the draw.text calls on the glow canvas: the outer pass and the inner
\* pass, each "for offset in range(1, 6)", (x, y) being (rainbow_x, rainbow_y)
GlowDrawCalls(x, y) ==
    GlowCalls(x, y, 1, 6, <<255, 255, 255, 100>>)
    \o GlowCalls(x, y, 1, 6, <<255, 255, 255, 100>>)

\* the glow canvas after both passes
GlowLayer(w, h, text, font, x, y) ==
    DrawTexts(ImageNew("RGBA", w, h, <<0, 0, 0, 0>>),
              GlowDrawCalls(x + 6, y + 6), text, font)

\* create_rainbow_colored_layer(text, font, text_x, text_y)
RainbowLayer(w, h, text, font, x, y) ==
    AlphaComposite(GlowLayer(w, h, text, font, x, y),
                   ConvertRGBA(RainbowCanvas(w, h, text, font, x, y)))

(***************************************************************************)
(* ImageEnhance.                                                           *)
(***************************************************************************)
\* the alpha band through ImageEnhance.Brightness(...).enhance(0.7), put back
\* with putalpha: a blend of black and the band at 0.7
RainbowReduced(layer) ==
    [mode |-> layer.mode, w |-> layer.w, h |-> layer.h,
     px |-> [p \in Grid(layer.w, layer.h) |->
                <<layer.px[p][1], layer.px[p][2], layer.px[p][3],
                  BlendSample(0, layer.px[p][4], 7, 10)>>]]

\* the sum of the luma of pixels 0..k-1 (row-major)
RECURSIVE LumaSum(_, _)
LumaSum(img, k) ==
    IF k = 0 THEN 0
    ELSE Luma(img.px[<<(k - 1) % img.w, (k - 1) \div img.w>>]) + LumaSum(img, k - 1)

\* ImageEnhance.Contrast: "mean = int(ImageStat.Stat(image.convert('L')).mean[0] + 0.5)"
MeanLuma(img) ==
    LET n == img.w * img.h
    IN  (2 * LumaSum(img, n) + n) \div (2 * n)

\* ImageEnhance.Contrast(img).enhance(num/den): blend of the mean gray and img
EnhanceContrast(img, num, den) ==
    LET mean == MeanLuma(img)
    IN  [mode |-> img.mode, w |-> img.w, h |-> img.h,
         px |-> [p \in Grid(img.w, img.h) |->
                    [i \in 1..3 |-> BlendSample(mean, img.px[p][i], num, den)]]]

\* ImageEnhance.Color(img).enhance(num/den): blend of the gray image and img
EnhanceColor(img, num, den) ==
    [mode |-> img.mode, w |-> img.w, h |-> img.h,
     px |-> [p \in Grid(img.w, img.h) |->
                [i \in 1..3 |-> BlendSample(Luma(img.px[p]), img.px[p][i], num, den)]]]

\* a plausible slip: the flattening left out, the image staying RGBA
FlattenKeepAlpha(img) == img

\* "result = result.convert('RGB')"
Flatten(img) == ConvertRGB(img)

(***************************************************************************)
(* State.                                                                  *)
(***************************************************************************)
VARIABLES
    \* DaftPunkTextEffect: the object's fields and the call's arguments
    width, height, text,
    \* the file system: os.path.exists(font_path), and whether
    \* ImageFont.truetype raises on the file
    font_exists, font_raises,
    \* create_daft_punk_effect: its position and its locals
    pc, background, font, text_x, text_y,
    main_chrome_text, black_shadow, rainbow_layer, rainbow_reduced, result,
    \* the draw.text calls made on the chrome working surface, in order
    draw_calls,
    \* the gradient built inside create_rainbow_colored_layer
    rainbow_gradient,
    \* the names of the layers handed to Image.alpha_composite, in order
    composited,
    \* the file written by result.save, and the lines printed
    saved, log,
    \* the invocation (1..MaxRuns) and the image the previous one returned
    run, prev_result,
    \* the state of numpy's global random generator
    rng,
    \* whether an exception left the method
    raised,
    \* DaftPunkTextEffect.load_texture: the file system, its position, its
    \* local and the value it returned
    texture_exists, texture_decodes, lt_pc, texture, lt_result,
    \* some_gl.py at start-up: its position, the GL texture objects, the
    \* module's globals and the lines printed
    v_pc, gl_textures, env_texture, face_color_textures, v_log,
    \* create_rainbow_colored_layer: its locals, and the draw.text calls made
    \* on the glow canvas, in order
    text_mask, rainbow_canvas, glow_canvas, glow_calls,
    \* some_gl.py, the main loop: its position and the module's globals;
    \* rotation_speed and distance are counted in halves (0.5 is 1)
    m_pc, running, use_combined_effect, rotation_speed, distance,
    \* the events pygame.event.get() returned that the for loop has yet to
    \* visit, how many events were delivered so far, and the events visited
    batch, delivered, processed,
    \* the GL context, and the frames drawn since running became false
    gl, quit_frames

effect_vars ==
    <<width, height, text, font_exists, font_raises, pc, background, font,
      text_x, text_y, main_chrome_text, black_shadow, rainbow_layer,
      rainbow_reduced, result, draw_calls, rainbow_gradient, composited,
      saved, run, prev_result>>
shared_vars == <<log, rng, raised>>
texture_vars == <<texture_exists, texture_decodes, lt_pc, texture, lt_result>>
viewer_vars == <<v_pc, gl_textures, env_texture, face_color_textures, v_log>>
rainbow_vars == <<text_mask, rainbow_canvas, glow_canvas, glow_calls>>
loop_vars ==
    <<m_pc, running, use_combined_effect, rotation_speed, distance, batch,
      delivered, processed, gl, quit_frames>>
vars == <<effect_vars, shared_vars, texture_vars, viewer_vars, rainbow_vars, loop_vars>>

(***************************************************************************)
(* gentext.py: setup_background and load_font.                             *)
(***************************************************************************)
\* a plausible slip: the background taken from the random noise texture
setup_background_noise(w, h, g) ==
    [image |-> ImageNew("RGB", w, h,
                        <<(97 * g + 13) % 256, (57 * g + 101) % 256, (31 * g + 7) % 256>>),
     rng |-> g + 1]

\* setup_background(): a new black RGB image; g, the random generator's
\* state, is returned as it was
setup_background(w, h, g) ==
    [image |-> ImageNew("RGB", w, h, <<0, 0, 0>>), rng |-> g]

\* a plausible slip: load_font without its try/except
load_font_unguarded(exists, raises) ==
    IF exists
    THEN IF raises
         THEN [font |-> "none", printed |-> <<>>, raised |-> TRUE]
         ELSE [font |-> "truetype", printed |-> <<>>, raised |-> FALSE]
    ELSE [font |-> "default", printed |-> <<"Font file not found, using default font">>,
          raised |-> FALSE]

\* load_font(font_path, size): the font returned, the lines printed and
\* whether an exception leaves the method
load_font(exists, raises) ==
    IF exists
    THEN IF raises
         THEN [font |-> "default", printed |-> <<"Error loading font">>,
               raised |-> FALSE]
         ELSE [font |-> "truetype", printed |-> <<>>, raised |-> FALSE]
    ELSE [font |-> "default", printed |-> <<"Font file not found, using default font">>,
          raised |-> FALSE]

(***************************************************************************)
(* gentext.py: create_daft_punk_effect, one action per statement group.    *)
(***************************************************************************)
EffectIdle ==
    /\ width = 1 /\ height = 1 /\ text = ""
    /\ font_exists = FALSE /\ font_raises = FALSE
    /\ pc = "idle" /\ background = NoImage /\ font = "none"
    /\ text_x = 0 /\ text_y = 0
    /\ main_chrome_text = NoImage /\ black_shadow = NoImage
    /\ rainbow_layer = NoImage /\ rainbow_reduced = NoImage /\ result = NoImage
    /\ draw_calls = <<>> /\ rainbow_gradient = NoImage /\ composited = <<>>
    /\ saved = NoImage /\ run = 1 /\ prev_result = NoImage
    /\ text_mask = NoImage /\ rainbow_canvas = NoImage
    /\ glow_canvas = NoImage /\ glow_calls = <<>>

TextureIdle ==
    /\ texture_exists = FALSE /\ texture_decodes = FALSE
    /\ lt_pc = "idle" /\ texture = NoImage /\ lt_result = NoImage

ViewerIdle ==
    /\ v_pc = "idle" /\ gl_textures = <<>> /\ env_texture = 0
    /\ face_color_textures = <<>> /\ v_log = <<>>

LoopIdle ==
    /\ m_pc = "idle" /\ running = FALSE /\ use_combined_effect = FALSE
    /\ rotation_speed = 0 /\ distance = 0
    /\ batch = <<>> /\ delivered = 0 /\ processed = <<>>
    /\ gl = [active |-> 0] /\ quit_frames = 0

EffectInit ==
    /\ width \in Widths /\ height \in Heights /\ text \in Texts
    /\ font_exists \in BOOLEAN /\ font_raises \in BOOLEAN
    /\ (font_raises => font_exists)
    /\ pc = "start" /\ background = NoImage /\ font = "none"
    /\ text_x = 0 /\ text_y = 0
    /\ main_chrome_text = NoImage /\ black_shadow = NoImage
    /\ rainbow_layer = NoImage /\ rainbow_reduced = NoImage /\ result = NoImage
    /\ draw_calls = <<>> /\ rainbow_gradient = NoImage /\ composited = <<>>
    /\ saved = NoImage /\ run = 1 /\ prev_result = NoImage
    /\ log = <<>> /\ rng = 0 /\ raised = FALSE
    /\ text_mask = NoImage /\ rainbow_canvas = NoImage
    /\ glow_canvas = NoImage /\ glow_calls = <<>>
    /\ TextureIdle /\ ViewerIdle /\ LoopIdle

\* lines 284-288
SetupBackground ==
    /\ pc = "start"
    /\ LET r == setup_background(width, height, rng)
       IN  /\ background' = r.image
           /\ rng' = r.rng
    /\ log' = log \o <<"Creating Daft Punk text effect...",
                       "Setting up black background...">>
    /\ pc' = "load_font"
    /\ UNCHANGED <<width, height, text, font_exists, font_raises, font, text_x,
                   text_y, main_chrome_text, black_shadow, rainbow_layer,
                   rainbow_reduced, result, draw_calls, rainbow_gradient,
                   composited, saved, run, prev_result, raised>>
    /\ UNCHANGED <<texture_vars, viewer_vars, rainbow_vars, loop_vars>>

\* lines 291-292
LoadFont ==
    /\ pc = "load_font"
    /\ LET r == load_font(font_exists, font_raises)
       IN  /\ font' = r.font
           /\ raised' = r.raised
           /\ log' = log \o <<"Creating chrome text with heavy bevel effects...">>
                         \o r.printed
           /\ pc' = IF r.raised THEN "raised" ELSE "measure"
    /\ UNCHANGED <<width, height, text, font_exists, font_raises, background,
                   text_x, text_y, main_chrome_text, black_shadow, rainbow_layer,
                   rainbow_reduced, result, draw_calls, rainbow_gradient,
                   composited, saved, run, prev_result, rng>>
    /\ UNCHANGED <<texture_vars, viewer_vars, rainbow_vars, loop_vars>>

\* lines 295-301
MeasureText ==
    /\ pc = "measure"
    /\ LET bbox == TextBBox(font, text)
           text_width == bbox[3] - bbox[1]
           text_height == bbox[4] - bbox[2]
       IN  /\ text_x' = (width - text_width) \div 2
           /\ text_y' = (height - text_height) \div 2
    /\ pc' = "chrome"
    /\ UNCHANGED <<width, height, text, font_exists, font_raises, background,
                   font, main_chrome_text, black_shadow, rainbow_layer,
                   rainbow_reduced, result, draw_calls, rainbow_gradient,
                   composited, saved, run, prev_result>>
    /\ UNCHANGED <<shared_vars, texture_vars, viewer_vars, rainbow_vars, loop_vars>>

\* line 306
CreateChrome ==
    /\ pc = "chrome"
    /\ main_chrome_text' = ChromeLayer(width, height, text, font, text_x, text_y)
    /\ draw_calls' = ChromeDrawCalls(text_x + effect_padding, text_y + effect_padding)
    /\ pc' = "shadow"
    /\ UNCHANGED <<width, height, text, font_exists, font_raises, background,
                   font, text_x, text_y, black_shadow, rainbow_layer,
                   rainbow_reduced, result, rainbow_gradient, composited,
                   saved, run, prev_result>>
    /\ UNCHANGED <<shared_vars, texture_vars, viewer_vars, rainbow_vars, loop_vars>>

\* lines 309-310
CreateShadow ==
    /\ pc = "shadow"
    /\ black_shadow' = ShadowLayer(width, height, text, font, text_x, text_y)
    /\ log' = log \o <<"Creating black shadow layer...">>
    /\ pc' = "rainbow"
    /\ UNCHANGED <<width, height, text, font_exists, font_raises, background,
                   font, text_x, text_y, main_chrome_text, rainbow_layer,
                   rainbow_reduced, result, draw_calls, rainbow_gradient,
                   composited, saved, run, prev_result, rng, raised>>
    /\ UNCHANGED <<texture_vars, viewer_vars, rainbow_vars, loop_vars>>

\* lines 313-314
CreateRainbow ==
    /\ pc = "rainbow"
    /\ rainbow_layer' = RainbowLayer(width, height, text, font, text_x, text_y)
    /\ rainbow_gradient' = RainbowGradient(width, height)
    /\ text_mask' = TextMask(width, height, text, font, text_x, text_y)
    /\ rainbow_canvas' = RainbowCanvas(width, height, text, font, text_x, text_y)
    /\ glow_calls' = GlowDrawCalls(text_x + 6, text_y + 6)
    /\ glow_canvas' = GlowLayer(width, height, text, font, text_x, text_y)
    /\ log' = log \o <<"Creating rainbow colored layer...">>
    /\ pc' = "to_rgba"
    /\ UNCHANGED <<width, height, text, font_exists, font_raises, background,
                   font, text_x, text_y, main_chrome_text, black_shadow,
                   rainbow_reduced, result, draw_calls, composited, saved, run,
                   prev_result, rng, raised>>
    /\ UNCHANGED <<texture_vars, viewer_vars, loop_vars>>

\* lines 317-318
ConvertBackground ==
    /\ pc = "to_rgba"
    /\ result' = ConvertRGBA(background)
    /\ log' = log \o <<"Combining layers...">>
    /\ pc' = "reduce"
    /\ UNCHANGED <<width, height, text, font_exists, font_raises, background,
                   font, text_x, text_y, main_chrome_text, black_shadow,
                   rainbow_layer, rainbow_reduced, draw_calls, rainbow_gradient,
                   composited, saved, run, prev_result, rng, raised>>
    /\ UNCHANGED <<texture_vars, viewer_vars, rainbow_vars, loop_vars>>

\* lines 322-326
ReduceRainbow ==
    /\ pc = "reduce"
    /\ rainbow_reduced' = RainbowReduced(rainbow_layer)
    /\ pc' = "comp_rainbow"
    /\ UNCHANGED <<width, height, text, font_exists, font_raises, background,
                   font, text_x, text_y, main_chrome_text, black_shadow,
                   rainbow_layer, result, draw_calls, rainbow_gradient,
                   composited, saved, run, prev_result>>
    /\ UNCHANGED <<shared_vars, texture_vars, viewer_vars, rainbow_vars, loop_vars>>

\* line 327
CompositeRainbow ==
    /\ pc = "comp_rainbow"
    /\ result' = AlphaComposite(result, rainbow_reduced)
    /\ composited' = Append(composited, "rainbow_reduced")
    /\ pc' = "comp_shadow"
    /\ UNCHANGED <<width, height, text, font_exists, font_raises, background,
                   font, text_x, text_y, main_chrome_text, black_shadow,
                   rainbow_layer, rainbow_reduced, draw_calls, rainbow_gradient,
                   saved, run, prev_result>>
    /\ UNCHANGED <<shared_vars, texture_vars, viewer_vars, rainbow_vars, loop_vars>>

\* line 330
CompositeShadow ==
    /\ pc = "comp_shadow"
    /\ result' = AlphaComposite(result, black_shadow)
    /\ composited' = Append(composited, "black_shadow")
    /\ pc' = "comp_chrome"
    /\ UNCHANGED <<width, height, text, font_exists, font_raises, background,
                   font, text_x, text_y, main_chrome_text, black_shadow,
                   rainbow_layer, rainbow_reduced, draw_calls, rainbow_gradient,
                   saved, run, prev_result>>
    /\ UNCHANGED <<shared_vars, texture_vars, viewer_vars, rainbow_vars, loop_vars>>

\* line 333
CompositeChrome ==
    /\ pc = "comp_chrome"
    /\ result' = AlphaComposite(result, main_chrome_text)
    /\ composited' = Append(composited, "main_chrome_text")
    /\ pc' = "to_rgb"
    /\ UNCHANGED <<width, height, text, font_exists, font_raises, background,
                   font, text_x, text_y, main_chrome_text, black_shadow,
                   rainbow_layer, rainbow_reduced, draw_calls, rainbow_gradient,
                   saved, run, prev_result>>
    /\ UNCHANGED <<shared_vars, texture_vars, viewer_vars, rainbow_vars, loop_vars>>

\* line 336
FlattenResult ==
    /\ pc = "to_rgb"
    /\ result' = Flatten(result)
    /\ pc' = "contrast"
    /\ UNCHANGED <<width, height, text, font_exists, font_raises, background,
                   font, text_x, text_y, main_chrome_text, black_shadow,
                   rainbow_layer, rainbow_reduced, draw_calls, rainbow_gradient,
                   composited, saved, run, prev_result>>
    /\ UNCHANGED <<shared_vars, texture_vars, viewer_vars, rainbow_vars, loop_vars>>

\* lines 337-338
Contrast ==
    /\ pc = "contrast"
    /\ result' = EnhanceContrast(result, 12, 10)
    /\ pc' = "color"
    /\ UNCHANGED <<width, height, text, font_exists, font_raises, background,
                   font, text_x, text_y, main_chrome_text, black_shadow,
                   rainbow_layer, rainbow_reduced, draw_calls, rainbow_gradient,
                   composited, saved, run, prev_result>>
    /\ UNCHANGED <<shared_vars, texture_vars, viewer_vars, rainbow_vars, loop_vars>>

\* lines 340-341
Color ==
    /\ pc = "color"
    /\ result' = EnhanceColor(result, 13, 10)
    /\ pc' = "save"
    /\ UNCHANGED <<width, height, text, font_exists, font_raises, background,
                   font, text_x, text_y, main_chrome_text, black_shadow,
                   rainbow_layer, rainbow_reduced, draw_calls, rainbow_gradient,
                   composited, saved, run, prev_result>>
    /\ UNCHANGED <<shared_vars, texture_vars, viewer_vars, rainbow_vars, loop_vars>>

\* lines 344-347
SaveAndReturn ==
    /\ pc = "save"
    /\ saved' = result
    /\ log' = log \o <<"Daft Punk effect saved">>
    /\ pc' = "done"
    /\ UNCHANGED <<width, height, text, font_exists, font_raises, background,
                   font, text_x, text_y, main_chrome_text, black_shadow,
                   rainbow_layer, rainbow_reduced, result, draw_calls,
                   rainbow_gradient, composited, run, prev_result, rng, raised>>
    /\ UNCHANGED <<texture_vars, viewer_vars, rainbow_vars, loop_vars>>

\* the method called again on the same object with the same arguments: its
\* locals start afresh, the file system and the random generator are as the
\* previous call left them
Reinvoke ==
    /\ pc = "done"
    /\ run < MaxRuns
    /\ run' = run + 1
    /\ prev_result' = result
    /\ pc' = "start"
    /\ background' = NoImage /\ font' = "none" /\ text_x' = 0 /\ text_y' = 0
    /\ main_chrome_text' = NoImage /\ black_shadow' = NoImage
    /\ rainbow_layer' = NoImage /\ rainbow_reduced' = NoImage
    /\ result' = NoImage /\ draw_calls' = <<>> /\ rainbow_gradient' = NoImage
    /\ composited' = <<>> /\ log' = <<>>
    /\ text_mask' = NoImage /\ rainbow_canvas' = NoImage
    /\ glow_canvas' = NoImage /\ glow_calls' = <<>>
    /\ UNCHANGED <<width, height, text, font_exists, font_raises, saved, rng,
                   raised>>
    /\ UNCHANGED <<texture_vars, viewer_vars, loop_vars>>

EffectNext ==
    \/ SetupBackground \/ LoadFont \/ MeasureText
    \/ CreateChrome \/ CreateShadow \/ CreateRainbow
    \/ ConvertBackground \/ ReduceRainbow
    \/ CompositeRainbow \/ CompositeShadow \/ CompositeChrome
    \/ FlattenResult \/ Contrast \/ Color \/ SaveAndReturn
    \/ Reinvoke

Spec == EffectInit /\ [][EffectNext]_vars

(***************************************************************************)
(* Properties of create_daft_punk_effect.                                  *)
(***************************************************************************)
Abs(n) == IF n < 0 THEN -n ELSE n

InLog(msg) == \E i \in DOMAIN log : log[i] = msg

IsLayer(img) ==
    /\ img.mode = "RGBA" /\ img.w = width /\ img.h = height
    /\ DOMAIN img.px = Grid(width, height)
    /\ \A p \in Grid(width, height) :
           /\ DOMAIN img.px[p] = 1..4
           /\ \A i \in 1..4 : img.px[p][i] \in 0..255

\* out is src over dst by the textbook formula, to within one level:
\*   a_out = a_src + a_dst * (1 - a_src)
\*   c_out = (c_src * a_src + c_dst * a_dst * (1 - a_src)) / a_out
IsSrcOverPixel(out, dst, src) ==
    LET under == dst[4] * (255 - src[4])
        outa255 == src[4] * 255 + under
    IN  /\ Abs(255 * out[4] - outa255) <= 255
        /\ outa255 > 0 =>
               \A i \in 1..3 :
                   Abs(out[i] * outa255 - (src[i] * src[4] * 255 + dst[i] * under))
                       <= outa255

IsSrcOver(out, dst, src) ==
    /\ IsLayer(out)
    /\ \A p \in Grid(width, height) : IsSrcOverPixel(out.px[p], dst.px[p], src.px[p])

\* the layer is the other one with its alpha at 70% (rounded down) and its
\* colour bands untouched
IsAttenuated(reduced, layer) ==
    /\ IsLayer(reduced)
    /\ \A p \in Grid(width, height) :
           /\ \A i \in 1..3 : reduced.px[p][i] = layer.px[p][i]
           /\ 10 * reduced.px[p][4] <= 7 * layer.px[p][4]
           /\ 7 * layer.px[p][4] < 10 * (reduced.px[p][4] + 1)

C1_Step ==
    /\ pc = "comp_rainbow" =>
           /\ composited = <<>>
           /\ result = ImageNew("RGBA", width, height, <<0, 0, 0, 255>>)
           /\ IsAttenuated(rainbow_reduced, rainbow_layer)
           /\ IsSrcOver(result', result, rainbow_reduced)
           /\ composited' = <<"rainbow_reduced">>
    /\ pc = "comp_shadow" =>
           /\ IsSrcOver(result', result, black_shadow)
           /\ composited' = <<"rainbow_reduced", "black_shadow">>
    /\ pc = "comp_chrome" =>
           /\ IsSrcOver(result', result, main_chrome_text)
           /\ composited' = <<"rainbow_reduced", "black_shadow", "main_chrome_text">>
    /\ pc \notin {"comp_rainbow", "comp_shadow", "comp_chrome"} =>
           \/ composited' = composited
           \/ pc = "done" /\ composited' = <<>>
    /\ pc' \in {"to_rgb", "contrast", "color", "save", "done"} =>
           composited' = <<"rainbow_reduced", "black_shadow", "main_chrome_text">>

\* C1: the layers are composited onto the black background in the order
\* rainbow (alpha at 70%, colours unchanged), offset shadow, chrome; each step
\* is a src-over composite of the layer on the accumulated result, and no
\* other layer is composited.
C1_CompositeOrder == [][C1_Step]_vars

C1_Witness ==
    /\ pc = "to_rgb"
    /\ composited = <<"rainbow_reduced", "black_shadow", "main_chrome_text">>
    /\ \E p \in Grid(width, height) :
           /\ rainbow_reduced.px[p][4] \in 1..254
           /\ rainbow_layer.px[p][4] > rainbow_reduced.px[p][4]
           /\ black_shadow.px[p][4] > 0
           /\ main_chrome_text.px[p][4] \in 1..254

IsOpaqueRGB(img) ==
    /\ img.mode = "RGB" /\ img.w = width /\ img.h = height
    /\ DOMAIN img.px = Grid(width, height)
    /\ \A p \in Grid(width, height) :
           /\ DOMAIN img.px[p] = 1..3
           /\ \A i \in 1..3 : img.px[p][i] \in 0..255

\* C2: the image returned and saved is an opaque RGB image of exactly
\* width x height pixels; the contrast and colour adjustments come after the
\* flattening and change neither mode nor size.
C2_OutputIsRGB ==
    /\ pc \in {"contrast", "color", "save", "done"} => IsOpaqueRGB(result)
    /\ pc \in {"comp_rainbow", "comp_shadow", "comp_chrome", "to_rgb"} =>
           result.mode = "RGBA"
    /\ pc = "done" => saved = result

C2_Witness ==
    /\ pc = "done" /\ width > 1 /\ height > 1 /\ text # ""
    /\ IsOpaqueRGB(result)
    /\ \E p \in Grid(width, height) : result.px[p] # <<0, 0, 0>>

\* C3: the chrome, shadow and rainbow layers are RGBA grids of exactly
\* width x height pixels, and pixel (p, q) of the chrome layer is pixel
\* (p + 80, q + 80) of the padded working surface the text was stamped on.
C3_LayerSizes ==
    /\ pc \notin {"start", "load_font", "measure", "chrome", "idle"} =>
           /\ IsLayer(main_chrome_text)
           /\ Len(draw_calls) >= 34
           /\ draw_calls[34] = [x |-> text_x + 80, y |-> text_y + 80,
                                fill |-> <<140, 140, 140, 255>>]
    /\ pc = "shadow" =>
           \A p \in Grid(width, height) :
               main_chrome_text.px[p] =
                   DrawAt(<<0, 0, 0, 0>>, draw_calls, 1, text, font,
                          <<p[1] + 80, p[2] + 80>>)
    /\ pc \notin {"start", "load_font", "measure", "chrome", "shadow", "idle"} =>
           IsLayer(black_shadow)
    /\ pc \notin {"start", "load_font", "measure", "chrome", "shadow", "rainbow",
                  "idle"} =>
           IsLayer(rainbow_layer)

C3_Witness ==
    /\ pc = "to_rgba" /\ width > 1
    /\ \E p \in Grid(width, height) : main_chrome_text.px[p][4] > 0
    /\ \E p \in Grid(width, height) : main_chrome_text.px[p][4] < 140
    /\ \E p \in Grid(width, height) : black_shadow.px[p][4] > 0
    /\ \E p \in Grid(width, height) : rainbow_layer.px[p][4] > 0

C5_FontFallback ==
    /\ raised = FALSE /\ pc # "raised"
    /\ pc \notin {"start", "load_font", "idle"} =>
           /\ ~font_exists =>
                  /\ font = "default"
                  /\ InLog("Font file not found, using default font")
           /\ (font_exists /\ font_raises) =>
                  (font = "default" /\ InLog("Error loading font"))
           /\ (font_exists /\ ~font_raises) => font = "truetype"
    /\ pc = "done" \/ ENABLED EffectNext
    /\ pc = "done" => IsOpaqueRGB(result)

C5_Witness ==
    /\ pc = "done" /\ ~font_exists /\ font = "default" /\ text # ""
    /\ InLog("Font file not found, using default font")
    /\ \E p \in Grid(width, height) : result.px[p] # <<0, 0, 0>>

\* the colour of hue x/w at full saturation and value by the closed form
\*   R = clamp(|6h - 3| - 1), G = clamp(2 - |6h - 2|), B = clamp(2 - |6h - 4|)
\* scaled to 0..255 and truncated
Clamp(n, lo, hi) == IF n < lo THEN lo ELSE IF n > hi THEN hi ELSE n

RefRainbow(x, w) ==
    <<(255 * Clamp(Abs(6 * x - 3 * w) - w, 0, w)) \div w,
      (255 * Clamp(2 * w - Abs(6 * x - 2 * w), 0, w)) \div w,
      (255 * Clamp(2 * w - Abs(6 * x - 4 * w), 0, w)) \div w>>

\* C9: every pixel of column x of the rainbow gradient is
\* HSVtoRGB(x / width, 1, 1) scaled to 0..255, the same in all rows; column 0
\* is (255, 0, 0); the hue increases strictly with x and stays below 1.
C9_RainbowGradient ==
    rainbow_gradient # NoImage =>
        /\ rainbow_gradient.mode = "RGB"
        /\ DOMAIN rainbow_gradient.px = Grid(width, height)
        /\ \A p \in Grid(width, height) :
               rainbow_gradient.px[p] = RefRainbow(p[1], width)
        /\ \A y \in 0..(height - 1) : rainbow_gradient.px[<<0, y>>] = <<255, 0, 0>>
        /\ \A x \in 0..(width - 1) :
               /\ Hue(x, width)[1] < Hue(x, width)[2]
               /\ Hue(x, width)[1] * Hue(x + 1, width)[2]
                      < Hue(x + 1, width)[1] * Hue(x, width)[2]

C9_Witness ==
    /\ pc = "to_rgba" /\ width >= 7 /\ height > 1
    /\ \E x \in 0..(width - 1) : rainbow_gradient.px[<<x, 1>>][3] = 255
    /\ \E x \in 0..(width - 1) : rainbow_gradient.px[<<x, 1>>][2] = 255
    /\ \E x \in 0..(width - 1) : rainbow_gradient.px[<<x, 0>>][1] \in 1..254

(***************************************************************************)
(* The stamps of create_chrome_text_with_bevel.                            *)
(***************************************************************************)
\* stamp n as <<dx, dy, fill>>, the offsets taken from the base text position
\* on the working surface
StampOf(n) ==
    <<draw_calls[n].x - (text_x + 80), draw_calls[n].y - (text_y + 80),
      draw_calls[n].fill>>

Directions8 == {d \in {-1, 0, 1} \X {-1, 0, 1} : d # <<0, 0>>}

StampsAsClaimed ==
    /\ Len(draw_calls) = 46
    \* 1: the drop shadow
    /\ StampOf(1) = <<3, 5, <<0, 0, 0, 200>> >>
    \* 2..33: the inner glow, magnitudes 1..4 in the 8 directions
    /\ \A n \in 2..33 : StampOf(n)[3] = <<0, 0, 0, 70>>
    /\ {<<StampOf(n)[1], StampOf(n)[2]>> : n \in 2..33}
           = {<<m * d[1], m * d[2]>> : m \in 1..4, d \in Directions8}
    /\ Cardinality({<<StampOf(n)[1], StampOf(n)[2]>> : n \in 2..33}) = 32
    \* 34: the base fill
    /\ StampOf(34) = <<0, 0, <<140, 140, 140, 255>> >>
    \* 35..37: the highlights, upwards, near-white, alpha decreasing
    /\ \A n \in 35..37 :
           /\ StampOf(n)[2] < 0
           /\ \A i \in 1..3 : StampOf(n)[3][i] >= 220
    /\ StampOf(35)[3][4] > StampOf(36)[3][4]
    /\ StampOf(36)[3][4] > StampOf(37)[3][4]
    \* 38..40: the shadows, downwards / to the right, dark
    /\ \A n \in 38..40 :
           /\ StampOf(n)[2] > 0 /\ StampOf(n)[1] >= 0
           /\ \A i \in 1..3 : StampOf(n)[3][i] <= 40
    \* 41..42: the satin pass on the diagonal, translucent navy
    /\ StampOf(41) = <<1, 1, <<20, 30, 80, 100>> >>
    /\ StampOf(42) = <<2, 2, <<20, 30, 80, 100>> >>
    \* 43..45: the edge hints, one pixel away: cyan, purple, orange
    /\ StampOf(43) = <<-1, 0, <<100, 255, 200, 30>> >>
    /\ StampOf(44) = <<1, 0, <<200, 100, 255, 30>> >>
    /\ StampOf(45) = <<0, -1, <<255, 200, 100, 25>> >>
    \* 46: the final top highlight
    /\ StampOf(46) = <<0, -1, <<255, 255, 255, 140>> >>

\* pixel p after the stamps k..Len(calls), each composited src-over
RECURSIVE OverAt(_, _, _, _, _, _)
OverAt(out, calls, k, txt, fnt, p) ==
    IF k > Len(calls) THEN out
    ELSE LET nxt == DrawPixelOver(out, calls[k].fill,
                                  CoverageAt(fnt, txt, calls[k].x, calls[k].y, p))
         IN  IF nxt[4] >= 0 THEN OverAt(nxt, calls, k + 1, txt, fnt, p) ELSE nxt

\* the coverage of stamp n at layer pixel p
StampCoverage(n, p) ==
    CoverageAt(font, text, draw_calls[n].x, draw_calls[n].y,
               <<p[1] + 80, p[2] + 80>>)

MaskAsClaimed(p) == CoverageAt(font, text, text_x + 6, text_y + 6, p)

\* magnitudes 1..5 at the 8 offsets of the 3x3 neighbourhood minus the centre
GlowOffsetsAsClaimed == {<<m * d[1], m * d[2]>> : m \in 1..5, d \in Directions8}

GlowOffset(n) == <<glow_calls[n].x - (text_x + 6), glow_calls[n].y - (text_y + 6)>>

GlowCoverage(n, p) == CoverageAt(font, text, glow_calls[n].x, glow_calls[n].y, p)

\* C11: the text mask is the text stamped once at (+6, +6); the gradient
\* text layer has the mask as its alpha, is fully transparent outside the
\* mask and is the gradient colour, opaque, where the mask is 255; the glow
\* canvas received the same 40 stamps twice (magnitudes 1..5, the 8
\* neighbours, never the zero offset) in white of alpha 100; the returned
\* layer is the gradient text layer over the glow canvas, and shows the
\* gradient colour wherever the mask is 255.
C11_RainbowLayerParts ==
    pc = "to_rgba" =>
        /\ text_mask.mode = "L" /\ text_mask.w = width /\ text_mask.h = height
        /\ IsLayer(rainbow_canvas) /\ IsLayer(glow_canvas) /\ IsLayer(rainbow_layer)
        /\ Len(glow_calls) = 80
        /\ \A n \in 1..40 : glow_calls[n + 40] = glow_calls[n]
        /\ {GlowOffset(n) : n \in 1..40} = GlowOffsetsAsClaimed
        /\ \A n \in 1..80 :
               /\ GlowOffset(n) # <<0, 0>>
               /\ glow_calls[n].fill = <<255, 255, 255, 100>>
        /\ \A p \in Grid(width, height) :
               /\ text_mask.px[p] = <<MaskAsClaimed(p)>>
               /\ rainbow_canvas.px[p][4] = MaskAsClaimed(p)
               /\ \A b \in 1..3 : rainbow_canvas.px[p][b] <= rainbow_gradient.px[p][b]
               /\ MaskAsClaimed(p) = 0 => rainbow_canvas.px[p] = <<0, 0, 0, 0>>
               /\ MaskAsClaimed(p) = 255 =>
                      /\ rainbow_canvas.px[p] = rainbow_gradient.px[p] \o <<255>>
                      /\ rainbow_layer.px[p] = rainbow_gradient.px[p] \o <<255>>
               /\ IF \A n \in 1..80 : GlowCoverage(n, p) = 0
                  THEN glow_canvas.px[p] = <<0, 0, 0, 0>>
                  ELSE /\ \A b \in 1..3 : glow_canvas.px[p][b] = 255
                       /\ glow_canvas.px[p][4] \in 1..100
               /\ IsSrcOverPixel(rainbow_layer.px[p], glow_canvas.px[p],
                                 rainbow_canvas.px[p])

\* a pixel fully inside the mask that the glow also reached, and a pixel
\* outside the mask where only the glow shows
C11_Witness ==
    /\ pc = "to_rgba"
    /\ \E p \in Grid(width, height) :
           /\ MaskAsClaimed(p) = 255
           /\ glow_canvas.px[p][4] > 0
           /\ rainbow_layer.px[p] # glow_canvas.px[p]
    /\ \E p \in Grid(width, height) :
           /\ MaskAsClaimed(p) = 0
           /\ glow_canvas.px[p][4] > 0
           /\ rainbow_layer.px[p] = glow_canvas.px[p]

(***************************************************************************)
(* gentext.py: load_texture and generate_noise_texture.                    *)
(* A texture is described by where its samples come from and what was done *)
(* to them: [mode, w, h, origin, seed, steps, peak], peak being the        *)
(* largest value a sample can have.                                        *)
(***************************************************************************)
\* a plausible slip: the noise array shaped (width, height, 3), which
\* Image.fromarray reads as an image of height x width pixels
generate_noise_texture_transposed(w, h, g) ==
    [image |-> [mode |-> "RGB", w |-> h, h |-> w, origin |-> "noise", seed |-> g,
                steps |-> <<"blur">>, peak |-> 255],
     rng |-> g + 1]

\* generate_noise_texture(): random samples 0..255 drawn from the generator
\* in state g, blurred; the image and the generator's next state
generate_noise_texture(w, h, g) ==
    [image |-> [mode |-> "RGB", w |-> w, h |-> h, origin |-> "noise", seed |-> g,
                steps |-> <<"blur">>, peak |-> 255],
     rng |-> g + 1]

\* Image.open(texture_path).convert('RGB').resize((width, height), LANCZOS)
OpenTexture(w, h) ==
    [mode |-> "RGB", w |-> w, h |-> h, origin |-> "file", seed |-> 0,
     steps |-> <<"resize">>, peak |-> 255]

\* ImageEnhance.Brightness(texture).enhance(num/den): a blend of black and
\* the texture
EnhanceBrightness(t, num, den) ==
    [t EXCEPT !.steps = Append(t.steps, "brightness"),
              !.peak = BlendSample(0, t.peak, num, den)]

TextureInit ==
    /\ width \in Widths /\ height \in Heights
    /\ texture_exists \in BOOLEAN /\ texture_decodes \in BOOLEAN
    /\ (texture_decodes => texture_exists)
    /\ rng \in Seeds
    /\ lt_pc = "start" /\ texture = NoImage /\ lt_result = NoImage
    /\ log = <<>> /\ raised = FALSE /\ run = 1
    /\ text = "" /\ font_exists = FALSE /\ font_raises = FALSE
    /\ pc = "idle" /\ background = NoImage /\ font = "none"
    /\ text_x = 0 /\ text_y = 0
    /\ main_chrome_text = NoImage /\ black_shadow = NoImage
    /\ rainbow_layer = NoImage /\ rainbow_reduced = NoImage /\ result = NoImage
    /\ draw_calls = <<>> /\ rainbow_gradient = NoImage /\ composited = <<>>
    /\ saved = NoImage /\ prev_result = NoImage
    /\ text_mask = NoImage /\ rainbow_canvas = NoImage
    /\ glow_canvas = NoImage /\ glow_calls = <<>>
    /\ ViewerIdle /\ LoopIdle

\* line 18: "if os.path.exists(texture_path)"
LtExists ==
    /\ lt_pc = "start"
    /\ lt_pc' = IF texture_exists THEN "open" ELSE "generate"
    /\ UNCHANGED <<texture_exists, texture_decodes, texture, lt_result>>
    /\ UNCHANGED <<effect_vars, shared_vars, viewer_vars, rainbow_vars, loop_vars>>

\* lines 19-21; an exception raised by Image.open goes to the handler
LtOpen ==
    /\ lt_pc = "open"
    /\ IF texture_decodes
       THEN /\ texture' = OpenTexture(width, height)
            /\ lt_pc' = "brightness"
       ELSE /\ texture' = texture
            /\ lt_pc' = "except"
    /\ UNCHANGED <<texture_exists, texture_decodes, lt_result>>
    /\ UNCHANGED <<effect_vars, shared_vars, viewer_vars, rainbow_vars, loop_vars>>

\* lines 22-24
LtGenerate ==
    /\ lt_pc = "generate"
    /\ LET r == generate_noise_texture(width, height, rng)
       IN  /\ texture' = r.image
           /\ rng' = r.rng
    /\ lt_pc' = "brightness"
    /\ UNCHANGED <<texture_exists, texture_decodes, lt_result, log, raised>>
    /\ UNCHANGED <<effect_vars, viewer_vars, rainbow_vars, loop_vars>>

\* lines 27-30
LtBrightness ==
    /\ lt_pc = "brightness"
    /\ texture' = EnhanceBrightness(texture, 2, 10)
    /\ lt_result' = texture'
    /\ lt_pc' = "returned"
    /\ UNCHANGED <<texture_exists, texture_decodes>>
    /\ UNCHANGED <<effect_vars, shared_vars, viewer_vars, rainbow_vars, loop_vars>>

\* lines 31-33
LtExcept ==
    /\ lt_pc = "except"
    /\ log' = Append(log, "Error loading texture")
    /\ LET r == generate_noise_texture(width, height, rng)
       IN  /\ lt_result' = r.image
           /\ rng' = r.rng
    /\ lt_pc' = "returned"
    /\ UNCHANGED <<texture_exists, texture_decodes, texture, raised>>
    /\ UNCHANGED <<effect_vars, viewer_vars, rainbow_vars, loop_vars>>

\* load_texture called again on the same object
LtReinvoke ==
    /\ lt_pc = "returned"
    /\ run < MaxRuns
    /\ run' = run + 1
    /\ lt_pc' = "start" /\ texture' = NoImage /\ lt_result' = NoImage
    /\ log' = <<>>
    /\ UNCHANGED <<texture_exists, texture_decodes, rng, raised>>
    /\ UNCHANGED <<width, height, text, font_exists, font_raises, pc, background,
                   font, text_x, text_y, main_chrome_text, black_shadow,
                   rainbow_layer, rainbow_reduced, result, draw_calls,
                   rainbow_gradient, composited, saved, prev_result>>
    /\ UNCHANGED <<viewer_vars, rainbow_vars, loop_vars>>

TextureNext ==
    \/ LtExists \/ LtOpen \/ LtGenerate \/ LtBrightness \/ LtExcept \/ LtReinvoke

SpecTexture == TextureInit /\ [][TextureNext]_vars

\* the texture is generated noise of canvas size, blurred
IsNoiseTexture(t) ==
    /\ t.origin = "noise" /\ t.mode = "RGB"
    /\ t.w = width /\ t.h = height
    /\ t.steps # <<>> /\ t.steps[1] = "blur"

\* C6 as stated: with the texture file missing, load_texture returns a
\* generated blurred noise texture of canvas size, prints a warning and
\* raises nothing.
C6_MissingTextureWarned ==
    (lt_pc = "returned" /\ ~texture_exists) =>
        /\ IsNoiseTexture(lt_result)
        /\ log # <<>>
        /\ ~raised

\* C6 as amended: with the texture file missing, load_texture returns a
\* generated blurred noise texture of canvas size, darkened to brightness
\* 0.2, prints nothing and raises nothing.
C6_MissingTextureFallback ==
    /\ ~raised
    /\ (lt_pc = "returned" /\ ~texture_exists) =>
           /\ IsNoiseTexture(lt_result)
           /\ lt_result.steps = <<"blur", "brightness">>
           /\ lt_result.peak = 51
           /\ log = <<>>
           /\ rng > 0

C6_Witness ==
    /\ lt_pc = "returned" /\ ~texture_exists
    /\ width # height
    /\ lt_result.origin = "noise"

\* C7: a decode error is caught, printed, and handled as the missing file
\* is: the texture returned has gone through noise generation, blur and
\* the brightness reduction to 0.2.
C7_DecodeErrorLikeMissing ==
    (lt_pc = "returned" /\ texture_exists /\ ~texture_decodes) =>
        /\ InLog("Error loading texture")
        /\ ~raised
        /\ IsNoiseTexture(lt_result)
        /\ lt_result.steps = <<"blur", "brightness">>
        /\ lt_result.peak = 51

(***************************************************************************)
(* some_gl.py: load_texture and load_env_texture, and the seven loads at   *)
(* start-up.  A path is a sequence of characters.  What the world answers  *)
(* to one load is one of                                                   *)
(*   "ok"          the request or the file yields a decodable image        *)
(*   "unreachable" requests.get raises (no network, no such host)          *)
(*   "missing"     there is no such file (for a URL: an error page)        *)
(*   "corrupt"     the bytes are not an image                              *)
(* A GL texture object is [source, w, h, format]; glGenTextures names the  *)
(* objects 1, 2, ... in order.                                             *)
(***************************************************************************)
LocalPath == <<"t", ".", "p", "n", "g">>
HttpUrl == <<"h", "t", "t", "p", ":", "/", "/", "x">>
HttpsUrl == <<"h", "t", "t", "p", "s", ":", "/", "/", "x">>
Paths == {LocalPath, HttpUrl, HttpsUrl}
Worlds == {"ok", "unreachable", "missing", "corrupt"}

\* str.startswith
StartsWith(path, prefix) ==
    /\ Len(path) >= Len(prefix)
    /\ SubSeq(path, 1, Len(prefix)) = prefix

IsUrl(path) ==
    StartsWith(path, <<"h", "t", "t", "p", ":">>)
    \/ StartsWith(path, <<"h", "t", "t", "p", "s", ":">>)

\* requests.get(path) then Image.open(BytesIO(response.content)): the
\* exception raised, or "none"
FetchError(path, world) ==
    IF world = "unreachable" THEN "ConnectionError"
    ELSE IF world \in {"missing", "corrupt"} THEN "UnidentifiedImageError"
    ELSE "none"

\* Image.open(path) on the local file system: the exception raised, or
\* "none"; a URL names no local file
OpenError(path, world) ==
    IF IsUrl(path) \/ world \in {"unreachable", "missing"} THEN "FileNotFoundError"
    ELSE IF world = "corrupt" THEN "UnidentifiedImageError"
    ELSE "none"

\* a plausible slip: "except requests.RequestException" for "except Exception"
CaughtRequestsOnly(err) == err = "ConnectionError"

\* "except Exception as e": every error above is an Exception
Caught(err) == err \in {"ConnectionError", "FileNotFoundError", "UnidentifiedImageError"}

\* load_texture(path): the GL object uploaded, the lines printed, and
\* whether an exception leaves the function
load_texture(path, world) ==
    LET url == StartsWith(path, <<"h", "t", "t", "p", ":">>)
        first == IF url THEN <<"Loading texture from URL", path>>
                 ELSE <<"Loading texture from local file", path>>
        err == IF url THEN FetchError(path, world) ELSE OpenError(path, world)
    IN  IF err = "none"
        THEN [texture |-> [source |-> "image", w |-> 64, h |-> 64, format |-> "RGBA"],
              printed |-> <<first>>, raised |-> FALSE]
        ELSE IF Caught(err)
        THEN [texture |-> [source |-> "fallback", w |-> 256, h |-> 256,
                           format |-> "RGBA"],
              printed |-> <<first, <<"Failed to load texture, using fallback", path>> >>,
              raised |-> FALSE]
        ELSE [texture |-> [source |-> "none", w |-> 0, h |-> 0, format |-> "none"],
              printed |-> <<first>>, raised |-> TRUE]

\* load_env_texture(path)
load_env_texture(path, world) ==
    LET url == StartsWith(path, <<"h", "t", "t", "p", "s", ":">>)
        first == IF url THEN <<"Loading texture from URL", path>>
                 ELSE <<"Loading texture from local file", path>>
        err == IF url THEN FetchError(path, world) ELSE OpenError(path, world)
    IN  IF err = "none"
        THEN [texture |-> [source |-> "image", w |-> 512, h |-> 512, format |-> "RGB"],
              printed |-> <<first>>, raised |-> FALSE]
        ELSE IF Caught(err)
        THEN [texture |-> [source |-> "fallback", w |-> 512, h |-> 512,
                           format |-> "RGB"],
              printed |-> <<first, <<"Failed to load environment texture, using fallback",
                                     path>> >>,
              raised |-> FALSE]
        ELSE [texture |-> [source |-> "none", w |-> 0, h |-> 0, format |-> "none"],
              printed |-> <<first>>, raised |-> TRUE]

ViewerInit ==
    /\ v_pc = "load_env" /\ gl_textures = <<>> /\ env_texture = 0
    /\ face_color_textures = <<>> /\ v_log = <<>>
    /\ EffectIdle /\ TextureIdle /\ LoopIdle
    /\ log = <<>> /\ rng = 0 /\ raised = FALSE

\* lines 147-150: env_texture = load_env_texture(...)
LoadEnvTexture ==
    /\ v_pc = "load_env"
    /\ \E path \in Paths, world \in Worlds :
           LET r == load_env_texture(path, world)
           IN  IF r.raised
               THEN /\ v_pc' = "crashed"
                    /\ v_log' = v_log \o r.printed
                    /\ UNCHANGED <<gl_textures, env_texture>>
               ELSE /\ gl_textures' = Append(gl_textures, r.texture)
                    /\ env_texture' = Len(gl_textures) + 1
                    /\ v_log' = v_log \o r.printed
                    /\ v_pc' = "load_face"
    /\ UNCHANGED face_color_textures
    /\ UNCHANGED <<effect_vars, shared_vars, texture_vars, rainbow_vars, loop_vars>>

\* lines 153-160: the six entries of face_color_textures, in order
LoadFaceTexture ==
    /\ v_pc = "load_face"
    /\ \E path \in Paths, world \in Worlds :
           LET r == load_texture(path, world)
           IN  IF r.raised
               THEN /\ v_pc' = "crashed"
                    /\ v_log' = v_log \o r.printed
                    /\ UNCHANGED <<gl_textures, face_color_textures>>
               ELSE /\ gl_textures' = Append(gl_textures, r.texture)
                    /\ face_color_textures' =
                           Append(face_color_textures, Len(gl_textures) + 1)
                    /\ v_log' = v_log \o r.printed
                    /\ v_pc' = IF Len(face_color_textures) + 1 = 6
                               THEN "main_loop" ELSE "load_face"
    /\ UNCHANGED env_texture
    /\ UNCHANGED <<effect_vars, shared_vars, texture_vars, rainbow_vars, loop_vars>>

ViewerNext == LoadEnvTexture \/ LoadFaceTexture

SpecViewer == ViewerInit /\ [][ViewerNext]_vars

\* the GL name refers to a texture object that holds an image
Usable(name) ==
    /\ name \in 1..Len(gl_textures)
    /\ gl_textures[name].source \in {"image", "fallback"}
    /\ gl_textures[name].w > 0 /\ gl_textures[name].h > 0

Failures == {i \in DOMAIN v_log :
                v_log[i][1] \in {"Failed to load texture, using fallback",
                                 "Failed to load environment texture, using fallback"}}

Fallbacks == {n \in DOMAIN gl_textures : gl_textures[n].source = "fallback"}

\* C8: every failure to fetch, open or decode a texture is caught and
\* printed and a placeholder is uploaded and its name returned, whatever
\* the path: all seven loads yield a usable texture and the program
\* reaches the render loop.
C8_ViewerLoadsNeverFail ==
    /\ v_pc # "crashed"
    /\ v_pc = "main_loop" \/ ENABLED ViewerNext
    /\ env_texture # 0 => Usable(env_texture)
    /\ \A i \in DOMAIN face_color_textures : Usable(face_color_textures[i])
    /\ Cardinality(Failures) = Cardinality(Fallbacks)
    /\ v_pc = "main_loop" =>
           /\ env_texture = 1
           /\ face_color_textures = <<2, 3, 4, 5, 6, 7>>

C8_Witness ==
    /\ v_pc = "main_loop"
    /\ \E i \in DOMAIN v_log :
           v_log[i] = <<"Failed to load environment texture, using fallback", HttpUrl>>
    /\ \E i \in DOMAIN v_log :
           v_log[i] = <<"Failed to load texture, using fallback", HttpsUrl>>
    /\ \E i \in DOMAIN v_log :
           v_log[i] = <<"Failed to load texture, using fallback", HttpUrl>>
    /\ gl_textures[face_color_textures[6]].source = "image"

(***************************************************************************)
(* some_gl.py: the main loop.  An event is [type, key].  The GL context is  *)
(* [active, enabled, bound, env, texgen, material, quads]: the active       *)
(* texture unit, the capabilities enabled per texture unit as pairs         *)
(* <<unit, capability>>, the texture bound to GL_TEXTURE_2D per unit, the   *)
(* texture environment and the texture-coordinate generation per unit, the  *)
(* material, and the quads drawn in the current frame.  The rotation        *)
(* angles rotation_x, rotation_y, rotation_z only feed glRotatef and are    *)
(* not part of the state.                                                   *)
(***************************************************************************)
MaxEvents == 3

Keys == {"K_ESCAPE", "K_t", "K_UP", "K_DOWN", "K_SPACE", "K_r", "K_w", "K_s", "K_a"}

Events ==
    {[type |-> "QUIT", key |-> "none"], [type |-> "KEYUP", key |-> "K_t"]}
    \cup {[type |-> "KEYDOWN", key |-> k] : k \in Keys}

\* what pygame.event.get() can return when at most n events are pending
Batches(n) == UNION {[1..k -> Events] : k \in 0..n}

\* the keys of cube_faces in insertion order, with the normal of each face
cube_faces ==
    << [key |-> "front", normal |-> <<0, 0, 1>>],
       [key |-> "back", normal |-> <<0, 0, -1>>],
       [key |-> "top", normal |-> <<0, 1, 0>>],
       [key |-> "bottom", normal |-> <<0, -1, 0>>],
       [key |-> "right", normal |-> <<1, 0, 0>>],
       [key |-> "left", normal |-> <<-1, 0, 0>>] >>

\* "face_keys = list(cube_faces.keys())"
face_keys == [i \in 1..Len(cube_faces) |-> cube_faces[i].key]

\* the GL context when the main loop is entered: nothing enabled on the
\* texture units, the last texture uploaded still bound on unit 0
GlInitial(last) ==
    [active |-> 0,
     enabled |-> {},
     bound |-> [u \in 0..1 |-> IF u = 0 THEN last ELSE 0],
     env |-> [u \in 0..1 |-> "GL_MODULATE"],
     texgen |-> [u \in 0..1 |-> "GL_EYE_LINEAR"],
     material |-> "default",
     quads |-> <<>>]

\* one GL call on the context g
GlCall(g, c) ==
    CASE c[1] = "glActiveTexture" -> [g EXCEPT !.active = c[2]]
      [] c[1] = "glEnable" -> [g EXCEPT !.enabled = @ \cup {<<g.active, c[2]>>}]
      [] c[1] = "glDisable" -> [g EXCEPT !.enabled = @ \ {<<g.active, c[2]>>}]
      [] c[1] = "glBindTexture" -> [g EXCEPT !.bound[g.active] = c[2]]
      [] c[1] = "glTexEnvi" -> [g EXCEPT !.env[g.active] = c[2]]
      [] c[1] = "glTexGeni" -> [g EXCEPT !.texgen[g.active] = c[2]]
      [] c[1] = "glMaterial" -> [g EXCEPT !.material = c[2]]
      [] c[1] = "glBegin..glEnd" ->
             [g EXCEPT !.quads =
                 Append(@, [face |-> c[2],
                            texture |-> IF <<0, "GL_TEXTURE_2D">> \in g.enabled
                                        THEN g.bound[0] ELSE 0,
                            env |-> IF <<1, "GL_TEXTURE_2D">> \in g.enabled
                                    THEN g.bound[1] ELSE 0])]

\* the calls k..Len(calls) issued in order on the context g, the context
\* being computed after each call before the next is issued
RECURSIVE GlRun(_, _, _)
GlRun(g, calls, k) ==
    IF k > Len(calls) THEN g
    ELSE CHOOSE r \in {GlRun(nxt, calls, k + 1) : nxt \in {GlCall(g, calls[k])}} : TRUE

\* "for i in range(6): ..." of draw_cube_textured_faces
RECURSIVE TexturedFaceCalls(_, _)
TexturedFaceCalls(textures, i) ==
    IF i > 6 THEN <<>>
    ELSE << <<"glBindTexture", textures[i]>>, <<"glBegin..glEnd", face_keys[i]>> >>
         \o TexturedFaceCalls(textures, i + 1)

\* draw_cube_textured_faces()
draw_cube_textured_faces(g, textures) ==
    GlRun(g,
          << <<"glEnable", "GL_TEXTURE_2D">>, <<"glMaterial", "matte">> >>
          \o TexturedFaceCalls(textures, 1)
          \o << <<"glDisable", "GL_TEXTURE_2D">> >>,
          1)

\* "for i in range(6): ..." of draw_cube_shiny_and_textured
RECURSIVE ShinyFaceCalls(_, _)
ShinyFaceCalls(textures, i) ==
    IF i > 6 THEN <<>>
    ELSE << <<"glActiveTexture", 0>>, <<"glBindTexture", textures[i]>>,
            <<"glBegin..glEnd", face_keys[i]>> >>
         \o ShinyFaceCalls(textures, i + 1)

\* draw_cube_shiny_and_textured()
draw_cube_shiny_and_textured(g, textures, env) ==
    GlRun(g,
          << <<"glMaterial", "metallic">>,
             <<"glActiveTexture", 0>>,
             <<"glEnable", "GL_TEXTURE_2D">>,
             <<"glTexEnvi", "GL_MODULATE">>,
             <<"glActiveTexture", 1>>,
             <<"glEnable", "GL_TEXTURE_2D">>,
             <<"glEnable", "GL_TEXTURE_GEN_S">>,
             <<"glEnable", "GL_TEXTURE_GEN_T">>,
             <<"glTexGeni", "GL_SPHERE_MAP">>,
             <<"glBindTexture", env>>,
             <<"glTexEnvi", "GL_COMBINE">> >>
          \o ShinyFaceCalls(textures, 1)
          \o << <<"glDisable", "GL_TEXTURE_GEN_S">>,
                <<"glDisable", "GL_TEXTURE_GEN_T">>,
                <<"glActiveTexture", 1>>,
                <<"glDisable", "GL_TEXTURE_2D">>,
                <<"glActiveTexture", 0>>,
                <<"glDisable", "GL_TEXTURE_2D">> >>,
          1)

\* a plausible slip: T switching the combined mode on instead of flipping it
toggle_on(b) == TRUE

\* "use_combined_effect = not use_combined_effect"
toggle(b) == ~b

\* the "elif event.key == ..." chain; v is [running, use_combined_effect,
\* rotation_speed, distance], speeds and distances in halves
handle_key(v, key) ==
    CASE key = "K_ESCAPE" -> [v EXCEPT !.running = FALSE]
      [] key = "K_t" -> [v EXCEPT !.use_combined_effect = toggle(@)]
      [] key = "K_UP" -> [v EXCEPT !.rotation_speed = @ + 1]
      [] key = "K_DOWN" -> [v EXCEPT !.rotation_speed = @ - 1]
      [] key = "K_SPACE" -> [v EXCEPT !.rotation_speed = IF @ = 0 THEN 1 ELSE 0]
      [] key = "K_r" -> [v EXCEPT !.rotation_speed = IF @ <= 20 THEN 30 ELSE 1]
      [] key = "K_w" -> [v EXCEPT !.distance = @ + 1]
      [] key = "K_s" -> [v EXCEPT !.distance = @ - 1]
      [] OTHER -> v

\* the body of "for event in pygame.event.get():"
handle_event(v, e) ==
    IF e.type = "QUIT" THEN [v EXCEPT !.running = FALSE]
    ELSE IF e.type = "KEYDOWN" THEN handle_key(v, e.key)
    ELSE v

\* a plausible slip: "while True" with no break
loop_forever(r) == TRUE

\* "while running:"
loop_continues(r) == r

\* the module has run up to the main loop: the seven textures are loaded
\* (here from local files that decode), nothing else has run
LoopInit ==
    /\ m_pc = "while" /\ running = TRUE /\ use_combined_effect = FALSE
    /\ rotation_speed = 1 /\ distance = -10
    /\ batch = <<>> /\ delivered = 0 /\ processed = <<>>
    /\ gl = GlInitial(7) /\ quit_frames = 0
    /\ v_pc = "main_loop"
    /\ gl_textures = <<load_env_texture(LocalPath, "ok").texture>>
                     \o [i \in 1..6 |-> load_texture(LocalPath, "ok").texture]
    /\ env_texture = 1 /\ face_color_textures = <<2, 3, 4, 5, 6, 7>>
    /\ v_log = load_env_texture(LocalPath, "ok").printed
               \o [i \in 1..6 |-> load_texture(LocalPath, "ok").printed[1]]
    /\ EffectIdle /\ TextureIdle
    /\ log = <<>> /\ rng = 0 /\ raised = FALSE

\* line 266 with running true, and line 267: pygame.event.get()
PollEvents ==
    /\ m_pc = "while"
    /\ loop_continues(running)
    /\ \E b \in Batches(MaxEvents - delivered) :
           /\ batch' = b
           /\ delivered' = delivered + Len(b)
    /\ m_pc' = "events"
    /\ UNCHANGED <<running, use_combined_effect, rotation_speed, distance,
                   processed, gl, quit_frames>>
    /\ UNCHANGED <<effect_vars, shared_vars, texture_vars, viewer_vars, rainbow_vars>>

\* lines 268-294: one iteration of the for loop
HandleEvent ==
    /\ m_pc = "events"
    /\ batch # <<>>
    /\ LET e == Head(batch)
           v == handle_event([running |-> running,
                              use_combined_effect |-> use_combined_effect,
                              rotation_speed |-> rotation_speed,
                              distance |-> distance], e)
       IN  /\ running' = v.running
           /\ use_combined_effect' = v.use_combined_effect
           /\ rotation_speed' = v.rotation_speed
           /\ distance' = v.distance
           /\ v_log' = IF e.type = "KEYDOWN" /\ e.key = "K_t"
                       THEN Append(v_log, <<"Rendering mode toggled:",
                                            IF v.use_combined_effect
                                            THEN "Combined Shiny/Textured"
                                            ELSE "Textured Faces">>)
                       ELSE v_log
           /\ processed' = Append(processed, e)
    /\ batch' = Tail(batch)
    /\ UNCHANGED <<m_pc, delivered, gl, quit_frames>>
    /\ UNCHANGED <<gl_textures, env_texture, face_color_textures, v_pc>>
    /\ UNCHANGED <<effect_vars, shared_vars, texture_vars, rainbow_vars>>

\* lines 296-317: one frame
DrawFrame ==
    /\ m_pc = "events"
    /\ batch = <<>>
    /\ LET cleared == [gl EXCEPT !.quads = <<>>]
       IN  gl' = IF use_combined_effect
                 THEN draw_cube_shiny_and_textured(cleared, face_color_textures,
                                                   env_texture)
                 ELSE draw_cube_textured_faces(cleared, face_color_textures)
    /\ quit_frames' = IF running THEN quit_frames ELSE quit_frames + 1
    /\ m_pc' = "while"
    /\ UNCHANGED <<running, use_combined_effect, rotation_speed, distance, batch,
                   delivered, processed>>
    /\ UNCHANGED <<effect_vars, shared_vars, texture_vars, viewer_vars, rainbow_vars>>

\* line 266 with running false, and line 319: pygame.quit()
ExitLoop ==
    /\ m_pc = "while"
    /\ ~loop_continues(running)
    /\ m_pc' = "exited"
    /\ UNCHANGED <<running, use_combined_effect, rotation_speed, distance, batch,
                   delivered, processed, gl, quit_frames>>
    /\ UNCHANGED <<effect_vars, shared_vars, texture_vars, viewer_vars, rainbow_vars>>

LoopNext == PollEvents \/ HandleEvent \/ DrawFrame \/ ExitLoop

SpecLoop == LoopInit /\ [][LoopNext]_vars

\* the interpreter runs the script without pause: the loop always takes
\* its next step
SpecLoopFair == SpecLoop /\ WF_vars(LoopNext)

(***************************************************************************)
(* Properties of the main loop.                                            *)
(***************************************************************************)
KeyDown(k) == [type |-> "KEYDOWN", key |-> k]

\* the number of key-downs of k among the first n events visited
RECURSIVE Presses(_, _)
Presses(k, n) ==
    IF n = 0 THEN 0
    ELSE Presses(k, n - 1) + (IF processed[n] = KeyDown(k) THEN 1 ELSE 0)

\* the for loop is visiting a key-down event
VisitingKeyDown == m_pc = "events" /\ batch # <<>> /\ Head(batch).type = "KEYDOWN"

C12_Step ==
    VisitingKeyDown =>
        LET key == Head(batch).key
        IN  CASE key = "K_t" ->
                   /\ use_combined_effect' = ~use_combined_effect
                   /\ UNCHANGED <<running, rotation_speed, distance>>
              [] key = "K_UP" ->
                   /\ rotation_speed' = rotation_speed + 1
                   /\ UNCHANGED <<running, use_combined_effect, distance>>
              [] key = "K_DOWN" ->
                   /\ rotation_speed' = rotation_speed - 1
                   /\ UNCHANGED <<running, use_combined_effect, distance>>
              [] key \in {"K_SPACE", "K_r"} ->
                   UNCHANGED <<running, use_combined_effect, distance>>
              [] key = "K_w" ->
                   /\ distance' = distance + 1
                   /\ UNCHANGED <<running, use_combined_effect, rotation_speed>>
              [] key = "K_s" ->
                   /\ distance' = distance - 1
                   /\ UNCHANGED <<running, use_combined_effect, rotation_speed>>
              [] key = "K_ESCAPE" ->
                   /\ running' = FALSE
                   /\ UNCHANGED <<use_combined_effect, rotation_speed, distance>>
              [] OTHER ->
                   UNCHANGED <<running, use_combined_effect, rotation_speed, distance>>

C12_Parity ==
    m_pc # "idle" =>
        (use_combined_effect <=> Presses("K_t", Len(processed)) % 2 = 1)

\* C12: every key-down event changes only the variable tied to its key:
\* T flips use_combined_effect (combined exactly after an odd number of
\* presses), UP and DOWN move rotation_speed by +0.5 and -0.5, SPACE and R
\* set rotation_speed only, W and S move distance by +0.5 and -0.5, ESCAPE
\* sets running to false, any other key changes none of the four.
C12_KeysChangeOwnVariable == []C12_Parity /\ [][C12_Step]_vars

\* T pressed twice and W once, all visited
C12_Witness ==
    /\ m_pc = "events"
    /\ processed = <<KeyDown("K_t"), KeyDown("K_t"), KeyDown("K_w")>>
    /\ ~use_combined_effect
    /\ distance = -9 /\ rotation_speed = 1 /\ running

\* the capabilities the texture units have enabled when a frame starts in a
\* run that never used the combined mode
EnablesNeverCombined == {}

\* C13: draw_cube_shiny_and_textured disables again, on the unit where it
\* enabled it, every capability it enabled, so between frames the texture
\* units have the enables of a run in which the combined mode was never
\* used, whatever the sequence of mode toggles.
C13_CombinedModeCleansUp ==
    m_pc \in {"while", "events", "exited"} => gl.enabled = EnablesNeverCombined

\* the face each entry of face_color_textures is meant for (the comments
\* of lines 154-159)
FaceComments == <<"top", "bottom", "front", "right", "left", "back">>

\* C14: in both draw functions entry i of face_color_textures is drawn on
\* the face its comment names (top, bottom, front, right, left, back), the
\* face drawn for entry i being the i-th key of cube_faces.
C14_TexturesOnCommentedFaces ==
    (m_pc # "idle" /\ gl.quads # <<>>) =>
        /\ Len(gl.quads) = 6
        /\ \A i \in 1..6 :
               /\ gl.quads[i].texture = face_color_textures[i]
               /\ gl.quads[i].face = face_keys[i]
               /\ gl.quads[i].face = FaceComments[i]

IsQuit(e) == e.type = "QUIT" \/ e = KeyDown("K_ESCAPE")

QuitVisited == \E i \in DOMAIN processed : IsQuit(processed[i])

QuitDelivered == QuitVisited \/ \E i \in DOMAIN batch : IsQuit(batch[i])

C15_Safe ==
    m_pc # "idle" =>
        /\ running <=> ~QuitVisited
        /\ quit_frames <= 1
        /\ m_pc = "exited" => (QuitVisited /\ quit_frames = 1 /\ batch = <<>>)
        /\ (m_pc = "while" /\ ~running) => quit_frames = 1

C15_Step ==
    /\ ~running => ~running'
    /\ (m_pc = "events" /\ batch # <<>>) =>
           /\ m_pc' = "events"
           /\ batch' = Tail(batch)
           /\ processed' = Append(processed, Head(batch))
           /\ quit_frames' = quit_frames
    /\ m_pc = "exited" => m_pc' = "exited"

\* C15: once a QUIT or an ESCAPE key-down has been visited, running is
\* false and stays false; the rest of the batch is still visited, exactly
\* one more frame is drawn and the loop ends; a delivered QUIT or ESCAPE
\* always leads to the exit, and the loop never exits without one.
C15_QuitEndsLoop ==
    /\ []C15_Safe
    /\ [][C15_Step]_vars
    /\ (QuitDelivered ~> (m_pc = "exited"))

\* the loop has ended after an ESCAPE that was followed, in the same
\* batch, by a key that still took effect
C15_Witness ==
    /\ m_pc = "exited"
    /\ processed = <<KeyDown("K_w"), KeyDown("K_ESCAPE"), KeyDown("K_t")>>
    /\ use_combined_effect /\ ~running /\ quit_frames = 1
    /\ Len(gl.quads) = 6 /\ gl.quads[1].env = env_texture

====
